---- MODULE Spec2Model ----
(***************************************************************************)
(* Red-black tree over an arena (slab) of nodes addressed by handles, with *)
(* the command loop that drives it.  The tree operations are operators on  *)
(* a tree record [slab, root, panic]; panic records that an Index /        *)
(* IndexMut call (lib.rs:22-34) was made with a handle that is no slot of  *)
(* the slab, which aborts the process.                                     *)
(***************************************************************************)
EXTENDS Integers, Sequences, FiniteSets, TLC

\* Bounds of the model: the command loop is fed the values 0 .. MaxVal-1; the
\* loop restricted to insert and remove commands is fed the keys 0 .. MaxKey-1.
MaxVal == 5

MaxKey == 6

\* Pointer::null() is Pointer(!0): an index no slab of the model ever holds.
Null == -1

Values == 0 .. (MaxVal - 1)

Keys == 0 .. (MaxKey - 1)

Node(value, right, left, parent, color) ==
    [value |-> value, right |-> right, left |-> left, parent |-> parent, color |-> color]

\* Slab::new(): no slot.
SlabNew == [i \in {} |-> Node(0, Null, Null, Null, "Black")]

\* Slab::len(): the number of stored entries.
SlabLen(slab) == Cardinality(DOMAIN slab)

\* Slab::insert(): no entry is ever removed from a slab, so the next vacant
\* key is the number of entries; the key is returned through SlabLen.
SlabInsert(slab, node) ==
    [i \in 0 .. SlabLen(slab) |-> IF i \in DOMAIN slab THEN slab[i] ELSE node]

\* RedBlackTree::new().  log is the history of the calls made on the tree
\* (rotations, fixup entries under a Red parent, fixup recursions); the
\* program keeps no such field and no operation reads it.
new == [slab |-> SlabNew, root |-> Null, panic |-> FALSE, log |-> <<>>]

\* Index<Pointer>: self[p] is defined only on the slots of the slab.
Valid(t, p) == p \in DOMAIN t.slab

Panic(t) == [t EXCEPT !.panic = TRUE]

\* The arena and root of t at the time of a call.
Snap(t) == [slab |-> t.slab, root |-> t.root]

\* r with the call ev(node) recorded: before is the tree the call received,
\* r the tree it returned, to the node a recursion continues at.
Called(ev, node, to, before, r) ==
    IF r.panic THEN r
    ELSE [r EXCEPT !.log = Append(@, [ev |-> ev, node |-> node, to |-> to,
                                      before |-> Snap(before), after |-> Snap(r)])]

\* IndexMut<Pointer>: self[p].field = val
Set(t, p, field, val) ==
    IF t.panic THEN t
    ELSE IF ~Valid(t, p) THEN Panic(t)
    ELSE [t EXCEPT !.slab[p][field] = val]

\* cmp::max replaced by the smaller of the two.
Min(a, b) == IF a >= b THEN b ELSE a

Max(a, b) == IF a >= b THEN a ELSE b

----------------------------------------------------------------------------
\* Queries.  A query result is [ok, val]: ok is FALSE when the query indexed
\* the slab with an invalid handle.

RECURSIVE height_below(_, _)
height_below(t, node) ==
    IF node = Null THEN [ok |-> TRUE, val |-> 0]
    ELSE IF ~Valid(t, node) THEN [ok |-> FALSE, val |-> 0]
    ELSE LET left == height_below(t, t.slab[node].left)
             right == height_below(t, t.slab[node].right)
         IN  IF ~left.ok \/ ~right.ok THEN [ok |-> FALSE, val |-> 0]
             ELSE [ok |-> TRUE, val |-> Max(left.val, right.val) + 1]

height(t) == height_below(t, t.root)

RECURSIVE red_below(_, _)
red_below(t, node) ==
    IF ~Valid(t, node) THEN [ok |-> FALSE, val |-> 0]
    ELSE LET c0 == IF t.slab[node].color = "Red" THEN 1 ELSE 0
             r == IF t.slab[node].right # Null
                  THEN red_below(t, t.slab[node].right)
                  ELSE [ok |-> TRUE, val |-> 0]
             l == IF t.slab[node].left # Null
                  THEN red_below(t, t.slab[node].left)
                  ELSE [ok |-> TRUE, val |-> 0]
         IN  IF ~r.ok \/ ~l.ok THEN [ok |-> FALSE, val |-> 0]
             ELSE [ok |-> TRUE, val |-> c0 + r.val + l.val]

red_count(t) == red_below(t, t.root)

\* choose_node descending to the wrong side.
RECURSIVE choose_node_swapped(_, _, _)
choose_node_swapped(t, node, val) ==
    IF node = Null THEN [ok |-> TRUE, val |-> Null]
    ELSE IF ~Valid(t, node) THEN [ok |-> FALSE, val |-> Null]
    ELSE IF t.slab[node].value = val THEN [ok |-> TRUE, val |-> node]
    ELSE IF t.slab[node].value < val
        THEN choose_node_swapped(t, t.slab[node].left, val)
    ELSE choose_node_swapped(t, t.slab[node].right, val)

\* choose_node: [ok, val] with val the handle found (Null when absent).
RECURSIVE choose_node(_, _, _)
choose_node(t, node, val) ==
    IF node = Null THEN [ok |-> TRUE, val |-> Null]
    ELSE IF ~Valid(t, node) THEN [ok |-> FALSE, val |-> Null]
    ELSE IF t.slab[node].value = val THEN [ok |-> TRUE, val |-> node]
    ELSE IF t.slab[node].value < val THEN choose_node(t, t.slab[node].right, val)
    ELSE choose_node(t, t.slab[node].left, val)

\* get_node without its notice.
get_node_silent(t, val) ==
    LET node == choose_node(t, t.root, val)
    IN  [ok |-> node.ok, val |-> node.val, out |-> <<>>]

\* get_node: the handle found, and the lines it prints.
get_node(t, val) ==
    LET node == choose_node(t, t.root, val)
    IN  [ok |-> node.ok, val |-> node.val,
         out |-> IF node.ok /\ node.val = Null THEN <<"no such node">> ELSE <<>>]

----------------------------------------------------------------------------
\* Rotations.  A tree whose panic flag is set stays as it is: every write goes
\* through Set.

\* lib.rs:269-276 without line 278: the risen node keeps its old parent.
rotate_left_links_stale_parent(t, current, right, right_left, parent) ==
    Set(Set(IF right_left # Null
            THEN Set(Set(t, current, "right", right_left),
                     right_left, "parent", current)
            ELSE Set(t, current, "right", right_left),
            current, "parent", right),
        right, "left", current)

\* lib.rs:269-278: the links between current, its right child and the
\* child's left subtree.
rotate_left_links(t, current, right, right_left, parent) ==
    Set(Set(Set(IF right_left # Null
                THEN Set(Set(t, current, "right", right_left),
                         right_left, "parent", current)
                ELSE Set(t, current, "right", right_left),
                current, "parent", right),
            right, "left", current),
        right, "parent", parent)

\* lib.rs:280-291 with the risen node always hung on the left of the parent.
rotate_left_wrong_side(t, current, right, parent) ==
    IF t.panic THEN t
    ELSE IF parent = Null THEN [t EXCEPT !.root = right]
    ELSE Set(t, parent, "left", right)

\* lib.rs:280-291: the root, or the former parent's child link, takes right.
rotate_left_parent(t, current, right, parent) ==
    IF t.panic THEN t
    ELSE IF parent = Null THEN [t EXCEPT !.root = right]
    ELSE IF ~Valid(t, parent) THEN Panic(t)
    ELSE LET parent_right == t.slab[parent].right IN
         IF parent_right = Null THEN Set(t, parent, "left", right)
         ELSE IF ~Valid(t, parent_right) THEN Panic(t)
         ELSE IF t.slab[parent_right].value = t.slab[current].value
              THEN Set(t, parent, "right", right)
         ELSE Set(t, parent, "left", right)

rotate_left_body(t, current) ==
    IF t.panic THEN t
    ELSE IF ~Valid(t, current) THEN Panic(t)
    ELSE LET right == t.slab[current].right IN
    IF right = Null THEN t
    ELSE IF ~Valid(t, right) THEN Panic(t)
    ELSE LET right_left == t.slab[right].left
             parent == t.slab[current].parent
         IN  rotate_left_parent(rotate_left_links(t, current, right, right_left, parent),
                                current, right, parent)

rotate_left(t, current) ==
    Called("rotate_left", current, Null, t, rotate_left_body(t, current))

\* lib.rs:304-313 with the risen node painted Black by the rotation itself.
rotate_right_links_black(t, current, left, left_right, parent) ==
    Set(Set(Set(Set(IF left_right # Null
                    THEN Set(Set(t, current, "left", left_right),
                             left_right, "parent", current)
                    ELSE Set(t, current, "left", left_right),
                    current, "parent", left),
                left, "right", current),
            left, "parent", parent),
        left, "color", "Black")

\* lib.rs:304-313: the links between current, its left child and the child's
\* right subtree.
rotate_right_links(t, current, left, left_right, parent) ==
    Set(Set(Set(IF left_right # Null
                THEN Set(Set(t, current, "left", left_right),
                         left_right, "parent", current)
                ELSE Set(t, current, "left", left_right),
                current, "parent", left),
            left, "right", current),
        left, "parent", parent)

\* lib.rs:315-326 with the risen node always hung on the right of the parent.
rotate_right_wrong_side(t, current, left, parent) ==
    IF t.panic THEN t
    ELSE IF parent = Null THEN [t EXCEPT !.root = left]
    ELSE Set(t, parent, "right", left)

\* lib.rs:315-326: the root, or the former parent's child link, takes left.
rotate_right_parent(t, current, left, parent) ==
    IF t.panic THEN t
    ELSE IF parent = Null THEN [t EXCEPT !.root = left]
    ELSE IF ~Valid(t, parent) THEN Panic(t)
    ELSE LET parent_left == t.slab[parent].left IN
         IF parent_left = Null THEN Set(t, parent, "right", left)
         ELSE IF ~Valid(t, parent_left) THEN Panic(t)
         ELSE IF t.slab[parent_left].value = t.slab[current].value
              THEN Set(t, parent, "left", left)
         ELSE Set(t, parent, "right", left)

rotate_right_body(t, current) ==
    IF t.panic THEN t
    ELSE IF ~Valid(t, current) THEN Panic(t)
    ELSE LET left == t.slab[current].left IN
    IF left = Null THEN t
    ELSE IF ~Valid(t, left) THEN Panic(t)
    ELSE LET left_right == t.slab[left].right
             parent == t.slab[current].parent
         IN  rotate_right_parent(rotate_right_links(t, current, left, left_right, parent),
                                 current, left, parent)

rotate_right(t, current) ==
    Called("rotate_right", current, Null, t, rotate_right_body(t, current))

----------------------------------------------------------------------------
\* Insertion and its fixup machine.

\* uncle: [ok, val] with val the uncle's handle (Null when there is none).
uncle(t, node) ==
    IF ~Valid(t, node) THEN [ok |-> FALSE, val |-> Null]
    ELSE LET parent == t.slab[node].parent IN
    IF parent = Null THEN [ok |-> TRUE, val |-> Null]
    ELSE IF ~Valid(t, parent) THEN [ok |-> FALSE, val |-> Null]
    ELSE LET grandparent == t.slab[parent].parent IN
    IF grandparent = Null THEN [ok |-> TRUE, val |-> Null]
    ELSE IF ~Valid(t, grandparent) THEN [ok |-> FALSE, val |-> Null]
    ELSE LET grandparent_left == t.slab[grandparent].left
             grandparent_right == t.slab[grandparent].right
         IN  IF grandparent_left = Null \/ grandparent_right = Null
                 THEN [ok |-> TRUE, val |-> Null]
             ELSE IF ~Valid(t, grandparent_left) THEN [ok |-> FALSE, val |-> Null]
             ELSE IF t.slab[parent].value = t.slab[grandparent_left].value
                 THEN [ok |-> TRUE, val |-> grandparent_right]
             ELSE [ok |-> TRUE, val |-> grandparent_left]

\* insert_case1 leaving the root as it is.
insert_case1_skip(t, node) == t

insert_case1(t, node) == Set(t, node, "color", "Black")

insert_case2(t, node) == t

\* lib.rs:174 and 181: n = self[n].left (or .right) after the rotation at the
\* parent.
insert_case4_descend(t, node, side) ==
    [t |-> t, n |-> IF t.panic THEN node ELSE t.slab[node][side]]

\* The inner-grandchild step of insert_case4 (lib.rs:157-182): the tree after
\* the optional rotation at the parent, and the node n it continues with.
insert_case4_inner(t, node) ==
    IF ~Valid(t, node) THEN [t |-> Panic(t), n |-> node]
    ELSE LET parent == t.slab[node].parent IN
    IF ~Valid(t, parent) THEN [t |-> Panic(t), n |-> node]
    ELSE LET grandparent == t.slab[parent].parent
             parent_left == t.slab[parent].left
             parent_right == t.slab[parent].right
         IN
    IF ~Valid(t, grandparent) THEN [t |-> Panic(t), n |-> node]
    ELSE LET grandparent_left == t.slab[grandparent].left
             grandparent_right == t.slab[grandparent].right
         IN
    IF parent_right # Null /\ grandparent_left # Null /\ ~Valid(t, parent_right)
        THEN [t |-> Panic(t), n |-> node]
    ELSE IF parent_right # Null /\ grandparent_left # Null
          /\ t.slab[node].value = t.slab[parent_right].value
          /\ ~Valid(t, grandparent_left)
        THEN [t |-> Panic(t), n |-> node]
    ELSE IF parent_right # Null /\ grandparent_left # Null
          /\ t.slab[node].value = t.slab[parent_right].value
          /\ t.slab[parent].value = t.slab[grandparent_left].value
        THEN insert_case4_descend(rotate_left(t, parent), node, "left")
    ELSE IF parent_left # Null /\ grandparent_right # Null /\ ~Valid(t, parent_left)
        THEN [t |-> Panic(t), n |-> node]
    ELSE IF parent_left # Null /\ grandparent_right # Null
          /\ t.slab[node].value = t.slab[parent_left].value
          /\ ~Valid(t, grandparent_right)
        THEN [t |-> Panic(t), n |-> node]
    ELSE IF parent_left # Null /\ grandparent_right # Null
          /\ t.slab[node].value = t.slab[parent_left].value
          /\ t.slab[parent].value = t.slab[grandparent_right].value
        THEN insert_case4_descend(rotate_right(t, parent), node, "right")
    ELSE [t |-> t, n |-> node]

\* lib.rs:189-193 with the two rotations exchanged.
insert_case4_rotate_away(t, n, parent, grandparent, parent_left) ==
    IF parent_left # Null /\ t.slab[n].value = t.slab[parent_left].value
    THEN rotate_left(t, grandparent)
    ELSE rotate_right(t, grandparent)

\* lib.rs:189-193: the rotation at the grandparent.
insert_case4_rotate(t, n, parent, grandparent, parent_left) ==
    IF parent_left # Null /\ t.slab[n].value = t.slab[parent_left].value
    THEN rotate_right(t, grandparent)
    ELSE rotate_left(t, grandparent)

\* lib.rs:184-196 rotating without recolouring.
insert_case4_keep_colors(t, n) ==
    IF t.panic THEN t
    ELSE IF ~Valid(t, n) THEN Panic(t)
    ELSE LET parent == t.slab[n].parent IN
    IF ~Valid(t, parent) THEN Panic(t)
    ELSE LET grandparent == t.slab[parent].parent
             parent_left == t.slab[parent].left
         IN
    IF parent_left # Null /\ ~Valid(t, parent_left) THEN Panic(t)
    ELSE insert_case4_rotate(t, n, parent, grandparent, parent_left)

\* lib.rs:184-196 recolouring without rotating.
insert_case4_no_rotate(t, n) ==
    IF t.panic THEN t
    ELSE IF ~Valid(t, n) THEN Panic(t)
    ELSE LET parent == t.slab[n].parent IN
    IF ~Valid(t, parent) THEN Panic(t)
    ELSE LET grandparent == t.slab[parent].parent
         IN  Set(Set(t, parent, "color", "Black"), grandparent, "color", "Red")

\* The outer step of insert_case4 (lib.rs:184-196) on the tree and the node n
\* the inner step left: the rotation at the grandparent and the recolouring.
insert_case4_outer(t, n) ==
    IF t.panic THEN t
    ELSE IF ~Valid(t, n) THEN Panic(t)
    ELSE LET parent == t.slab[n].parent IN
    IF ~Valid(t, parent) THEN Panic(t)
    ELSE LET grandparent == t.slab[parent].parent
             parent_left == t.slab[parent].left
         IN
    IF parent_left # Null /\ ~Valid(t, parent_left) THEN Panic(t)
    ELSE Set(Set(insert_case4_rotate(t, n, parent, grandparent, parent_left),
                 parent, "color", "Black"),
             grandparent, "color", "Red")

\* insert_case4 from the result of its inner step.
insert_case4_from(inner) == insert_case4_outer(inner.t, inner.n)

insert_case4(t, node) == insert_case4_from(insert_case4_inner(t, node))

\* lib.rs:149-150 without line 151: the grandparent stays Black.
insert_case3_black_grandparent(t, parent, u, grandparent) ==
    Set(Set(t, parent, "color", "Black"), u, "color", "Black")

\* lib.rs:149-151: parent and uncle turn Black, the grandparent Red.
insert_case3_recolor(t, parent, u, grandparent) ==
    Set(Set(Set(t, parent, "color", "Black"), u, "color", "Black"),
        grandparent, "color", "Red")

RECURSIVE insert_fixup(_, _)

\* insert_case3 continuing at the parent instead of the grandparent.
insert_case3_to_parent(t, node, u) ==
    IF ~u.ok \/ ~Valid(t, node) THEN Panic(t)
    ELSE LET parent == t.slab[node].parent IN
    IF ~Valid(t, parent) THEN Panic(t)
    ELSE LET grandparent == t.slab[parent].parent
         IN  insert_fixup(Called("recurse", node, parent, t,
                                 insert_case3_recolor(t, parent, u.val, grandparent)),
                          parent)

\* insert_case3 once uncle(node) has returned u.
insert_case3_with(t, node, u) ==
    IF ~u.ok \/ ~Valid(t, node) THEN Panic(t)
    ELSE LET parent == t.slab[node].parent IN
    IF ~Valid(t, parent) THEN Panic(t)
    ELSE LET grandparent == t.slab[parent].parent
         IN  insert_fixup(Called("recurse", node, grandparent, t,
                                 insert_case3_recolor(t, parent, u.val, grandparent)),
                          grandparent)

insert_case3(t, node) == insert_case3_with(t, node, uncle(t, node))

\* lib.rs:124-133: the cases of a Red parent, once uncle(node) has returned u.
insert_fixup_uncle(t, node, u) ==
    IF ~u.ok THEN Panic(t)
    ELSE IF u.val = Null THEN insert_case4(t, node)
    ELSE IF ~Valid(t, u.val) THEN Panic(t)
    ELSE IF t.slab[u.val].color = "Black" THEN insert_case4(t, node)
    ELSE insert_case3(t, node)

insert_fixup(t, node) ==
    IF t.panic THEN t
    ELSE IF ~Valid(t, node) THEN Panic(t)
    ELSE LET parent == t.slab[node].parent IN
    IF parent = Null THEN insert_case1(t, node)
    ELSE IF ~Valid(t, parent) THEN Panic(t)
    ELSE IF t.slab[parent].color = "Black" THEN insert_case2(t, node)
    ELSE insert_fixup_uncle(Called("red_parent", node, Null, t, t), node, uncle(t, node))

\* insert_node: the tree after the descent and the handle of the new leaf
\* (Null for a duplicate).
RECURSIVE insert_node(_, _, _)
insert_node(t, val, node) ==
    IF ~Valid(t, node) THEN [t |-> Panic(t), node |-> Null]
    ELSE LET node_value == t.slab[node].value
             left == t.slab[node].left
             right == t.slab[node].right
             key == SlabLen(t.slab)
             leaf == Node(val, Null, Null, node, "Red")
         IN
    IF val = node_value THEN [t |-> t, node |-> Null]
    ELSE IF val > node_value THEN
        IF right = Null
        THEN [t |-> Set([t EXCEPT !.slab = SlabInsert(t.slab, leaf)], node, "right", key),
              node |-> key]
        ELSE insert_node(t, val, right)
    ELSE IF left = Null
        THEN [t |-> Set([t EXCEPT !.slab = SlabInsert(t.slab, leaf)], node, "left", key),
              node |-> key]
    ELSE insert_node(t, val, left)

\* lib.rs:108-110 without the null check on the new handle.
insert_unchecked(r) == insert_fixup(r.t, r.node)

\* lib.rs:108-110 on the result r of insert_node: the fixup machine runs on
\* a new leaf only.
insert_new_node(r) ==
    IF r.t.panic THEN r.t
    ELSE IF r.node # Null THEN insert_fixup(r.t, r.node)
    ELSE r.t

\* insert creating the first node Red (lib.rs:104 with the other colour).
insert_red_root(t, val) ==
    IF t.root = Null
    THEN [t EXCEPT !.slab = SlabInsert(t.slab, Node(val, Null, Null, Null, "Red")),
                   !.root = SlabLen(t.slab)]
    ELSE insert_new_node(insert_node(t, val, t.root))

insert(t, val) ==
    IF t.root = Null
    THEN [t EXCEPT !.slab = SlabInsert(t.slab, Node(val, Null, Null, Null, "Black")),
                   !.root = SlabLen(t.slab)]
    ELSE insert_new_node(insert_node(t, val, t.root))

----------------------------------------------------------------------------
\* Removal by rebuild.

\* One pass of the loop body of remove_cheat (lib.rs:337-339) on the new tree.
remove_cheat_step(new_tree, t, val, i) ==
    IF new_tree.panic THEN new_tree
    ELSE IF ~Valid(t, i) THEN Panic(new_tree)
    ELSE IF t.slab[i].value # val THEN insert(new_tree, t.slab[i].value)
    ELSE new_tree

\* The loop of remove_cheat walking the old arena from its last slot down.
RECURSIVE remove_cheat_loop_reversed(_, _, _)
remove_cheat_loop_reversed(t, val, k) ==
    IF k = 0 THEN new
    ELSE remove_cheat_step(remove_cheat_loop_reversed(t, val, k - 1), t, val,
                           SlabLen(t.slab) - k)

\* The loop of remove_cheat (lib.rs:336-340): the new tree after slots 0 .. k-1.
RECURSIVE remove_cheat_loop(_, _, _)
remove_cheat_loop(t, val, k) ==
    IF k = 0 THEN new
    ELSE remove_cheat_step(remove_cheat_loop(t, val, k - 1), t, val, k - 1)

\* remove_cheat stopping one slot short.
remove_cheat_short(t, val) == remove_cheat_loop(t, val, SlabLen(t.slab) - 1)

remove_cheat(t, val) == remove_cheat_loop(t, val, SlabLen(t.slab))

\* remove: the tree afterwards and the lines printed.
remove(t, val) ==
    LET g == get_node(t, val) IN
    IF ~g.ok THEN [t |-> Panic(t), out |-> g.out]
    ELSE IF g.val # Null THEN [t |-> remove_cheat(t, val), out |-> g.out]
    ELSE [t |-> t, out |-> g.out]

----------------------------------------------------------------------------
\* Presentation.

\* The colour letter of a line, without its terminal escape sequences.
color_str(color) == IF color = "Red" THEN "R" ELSE "B"

\* print_node: [ok, lines]; one line per node, the node before its left
\* subtree before its right subtree.  The branch glyphs are written in ASCII.
RECURSIVE print_node(_, _, _, _)
print_node(t, prefix, node, is_left) ==
    IF ~Valid(t, node) THEN [ok |-> FALSE, lines |-> <<>>]
    ELSE LET line == prefix \o (IF is_left THEN "|-- " ELSE "+-- ")
                       \o color_str(t.slab[node].color) \o " "
                       \o ToString(t.slab[node].value)
             below == prefix \o (IF is_left THEN "|   " ELSE "    ")
             l == IF t.slab[node].left # Null
                  THEN print_node(t, below, t.slab[node].left, TRUE)
                  ELSE [ok |-> TRUE, lines |-> <<>>]
             r == IF t.slab[node].right # Null
                  THEN print_node(t, below, t.slab[node].right, FALSE)
                  ELSE [ok |-> TRUE, lines |-> <<>>]
         IN  [ok |-> l.ok /\ r.ok, lines |-> <<line>> \o l.lines \o r.lines]

print(t) ==
    IF t.root # Null THEN print_node(t, "", t.root, FALSE)
    ELSE [ok |-> TRUE, lines |-> <<>>]

----------------------------------------------------------------------------
\* The command loop (main.rs).

VARIABLES slab, root, status, command, stdout

vars == <<slab, root, status, command, stdout>>

\* The tree the loop owns.
tree == [slab |-> slab, root |-> root, panic |-> FALSE, log |-> <<>>]

Prompt == <<"input: ">>

Init ==
    /\ slab = new.slab
    /\ root = new.root
    /\ status = "running"
    /\ command = <<"", 0>>
    /\ stdout = <<>>

\* The tree after a mutating command: a panic aborts the process.
Commit(t) ==
    IF t.panic
    THEN /\ status' = "slab_panic"
         /\ UNCHANGED <<slab, root>>
    ELSE /\ status' = "running"
         /\ slab' = t.slab
         /\ root' = t.root

\* The outcome of a query: its lines are printed unless it panicked.
Report(ok, lines) ==
    /\ status' = IF ok THEN "running" ELSE "slab_panic"
    /\ stdout' = IF ok THEN Prompt \o lines ELSE Prompt
    /\ UNCHANGED <<slab, root>>

InsertCmd(val) ==
    /\ status = "running"
    /\ command' = <<"insert", val>>
    /\ stdout' = Prompt
    /\ \E t \in {insert(tree, val)} : Commit(t)

RemoveCmd(val) ==
    /\ status = "running"
    /\ command' = <<"remove", val>>
    /\ \E r \in {remove(tree, val)} :
           /\ stdout' = Prompt \o r.out
           /\ Commit(r.t)

PrintCmd ==
    /\ status = "running"
    /\ command' = <<"print", 0>>
    /\ \E r \in {print(tree)} : Report(r.ok, r.lines)

HeightCmd ==
    /\ status = "running"
    /\ command' = <<"height", 0>>
    /\ \E r \in {height(tree)} :
           Report(r.ok, <<"max height: " \o ToString(r.val)>>)

RedCmd ==
    /\ status = "running"
    /\ command' = <<"red", 0>>
    /\ \E r \in {red_count(tree)} :
           Report(r.ok, <<ToString(r.val) \o " red nodes">>)

\* main.rs:44: the tokens of the arm that breaks out of the loop.
ExitTokens == {"exit", "break", "quit"}

ExitCmd ==
    /\ status = "running"
    /\ \E token \in ExitTokens : command' = <<token, 0>>
    /\ status' = "exited"
    /\ stdout' = Prompt
    /\ UNCHANGED <<slab, root>>

UnknownCmd ==
    /\ status = "running"
    /\ command' = <<"?", 0>>
    /\ status' = "running"
    /\ stdout' = Prompt \o <<"what?">>
    /\ UNCHANGED <<slab, root>>

\* A line without a token: args[0] is out of bounds (main.rs:20).
EmptyLine ==
    /\ status = "running"
    /\ status' = "args_panic"
    /\ stdout' = Prompt
    /\ UNCHANGED <<slab, root, command>>

Next ==
    \/ \E val \in Values : InsertCmd(val)
    \/ \E val \in Values : RemoveCmd(val)
    \/ PrintCmd
    \/ HeightCmd
    \/ RedCmd
    \/ ExitCmd
    \/ UnknownCmd
    \/ EmptyLine

Spec == Init /\ [][Next]_vars

\* The loop fed insert and remove commands only, over the wider key range.
NextTree ==
    \/ \E val \in Keys : InsertCmd(val)
    \/ \E val \in Keys : RemoveCmd(val)

SpecTree == Init /\ [][NextTree]_vars

\* The largest value of the runs that grow the tree at its ends.
MaxEdge == 10

EdgeValues == 1 .. MaxEdge

\* val lies beyond every stored value, on one side or the other.
Extreme(val) ==
    \/ \A i \in DOMAIN slab : slab[i].value < val
    \/ \A i \in DOMAIN slab : slab[i].value > val

\* The loop fed inserts of values beyond those it holds, on either side,
\* which builds the deepest trees of a given size.
NextEdge == \E val \in EdgeValues : Extreme(val) /\ InsertCmd(val)

SpecEdge == Init /\ [][NextEdge]_vars

----------------------------------------------------------------------------
\* Notions the properties are stated with.

Slots(sl) == DOMAIN sl

ValuesOf(sl) == {sl[i].value : i \in Slots(sl)}

Children(sl, i) == {sl[i].left, sl[i].right} \ {Null}

\* The numbers of Black nodes on the paths from node down to a null reference.
RECURSIVE PathBlacks(_, _)
PathBlacks(sl, node) ==
    IF node = Null THEN {0}
    ELSE LET own == IF sl[node].color = "Black" THEN 1 ELSE 0
         IN  {b + own : b \in PathBlacks(sl, sl[node].left) \cup PathBlacks(sl, sl[node].right)}

\* The values of the subtree of node.
RECURSIVE SubtreeValues(_, _)
SubtreeValues(sl, node) ==
    IF node = Null THEN {}
    ELSE {sl[node].value} \cup SubtreeValues(sl, sl[node].left)
                          \cup SubtreeValues(sl, sl[node].right)

\* The in-order traversal of the subtree of node.
RECURSIVE InOrder(_, _)
InOrder(sl, node) ==
    IF node = Null THEN <<>>
    ELSE InOrder(sl, sl[node].left) \o <<sl[node].value>> \o InOrder(sl, sl[node].right)

StrictlyAscending(seq) == \A i \in 1 .. (Len(seq) - 1) : seq[i] < seq[i + 1]

Pow2(n) == 2 ^ n

----------------------------------------------------------------------------
\* C1: after any sequence of insert and remove calls, no Red node has a Red
\* parent: neither through a child link nor through its parent link.
NoRedRed ==
    \A i \in Slots(slab) :
        slab[i].color = "Red" =>
            /\ \A c \in Children(slab, i) : slab[c].color = "Black"
            /\ slab[i].parent # Null => slab[slab[i].parent].color = "Black"

\* A remove has rebuilt a tree of at least five nodes in which a Red node
\* hangs below a Black node that is not the root.
NoRedRedWitness ==
    /\ command[1] = "remove"
    /\ stdout = Prompt
    /\ SlabLen(slab) >= 5
    /\ \E i \in Slots(slab) :
        /\ slab[i].color = "Red"
        /\ slab[i].parent # Null
        /\ slab[i].parent # root

\* C2: after any sequence of insert and remove calls, for every node all
\* paths from it down to a null reference hold the same number of Black nodes.
UniformBlackHeight ==
    \A i \in Slots(slab) : Cardinality(PathBlacks(slab, i)) = 1

\* An insert has grown the tree to MaxKey nodes, every path from the root
\* crossing two Black nodes.
UniformBlackHeightWitness ==
    /\ command[1] = "insert"
    /\ SlabLen(slab) = MaxKey
    /\ PathBlacks(slab, root) = {2}

\* C3: after any sequence of insert and remove calls, a non-empty tree has a
\* root, and the root is Black.
RootBlack ==
    SlabLen(slab) > 0 => (root \in Slots(slab) /\ slab[root].color = "Black")

\* An insert has pushed the Red-uncle recolouring up to the root: both
\* children of the root are Black and a Red leaf hangs below one of them.
RootBlackWitness ==
    /\ command[1] = "insert"
    /\ root # Null
    /\ slab[root].left # Null /\ slab[slab[root].left].color = "Black"
    /\ slab[root].right # Null /\ slab[slab[root].right].color = "Black"
    /\ slab[SlabLen(slab) - 1].value = command[2]
    /\ slab[SlabLen(slab) - 1].color = "Red"

\* C4: after any sequence of insert and remove calls, the tree is a binary
\* search tree with unique values: below every node the left subtree holds
\* strictly smaller and the right subtree strictly greater values, and the
\* in-order traversal from the root is strictly ascending.
SearchTree ==
    /\ \A i \in Slots(slab) :
        /\ \A v \in SubtreeValues(slab, slab[i].left) : v < slab[i].value
        /\ \A v \in SubtreeValues(slab, slab[i].right) : v > slab[i].value
    /\ StrictlyAscending(InOrder(slab, root))

\* The tree holds every key, inserted in an order that is not ascending.
SearchTreeWitness ==
    /\ Len(InOrder(slab, root)) = MaxKey
    /\ slab[0].value > slab[1].value
    /\ slab[1].value < slab[2].value

\* C10: a tree of n nodes has height at most 2*log2(n+1): 2^height <= (n+1)^2.
HeightBound ==
    LET h == height(tree)
        n == SlabLen(slab)
    IN  h.ok /\ Pow2(h.val) <= (n + 1) * (n + 1)

\* A tree of MaxKey nodes of height 4.
HeightBoundWitness ==
    /\ SlabLen(slab) = MaxKey
    /\ height(tree).val = 4

\* C5: no public operation ever indexes the slab with the null handle or with
\* a handle that is no slot of the arena.
NoInvalidDereference == status # "slab_panic"

\* C6: after insert(v) the stored values are the previous ones and v, and a
\* search for v from the root finds a node holding v.
InsertAdds ==
    [][\A v \in Values :
        InsertCmd(v) =>
            /\ status' = "running"
            /\ ValuesOf(slab') = ValuesOf(slab) \cup {v}
            /\ LET found == choose_node(tree', root', v)
               IN  /\ found.ok
                   /\ found.val \in Slots(slab')
                   /\ slab'[found.val].value = v]_vars

\* An insert has added its value, as a fifth node, in the last slot.
InsertAddsWitness ==
    /\ command[1] = "insert"
    /\ SlabLen(slab) = MaxVal
    /\ slab[SlabLen(slab) - 1].value = command[2]
    /\ choose_node(tree, root, command[2]).val = SlabLen(slab) - 1

\* C7: insert(v) of a value already in the tree changes neither the arena nor
\* the root handle, and exactly one node holds v.
DuplicateInsertNoOp ==
    [][\A v \in Values :
        (InsertCmd(v) /\ v \in ValuesOf(slab)) =>
            /\ status' = "running"
            /\ slab' = slab
            /\ root' = root
            /\ Cardinality({i \in Slots(slab') : slab'[i].value = v}) = 1]_vars

\* An insert was given a value that an earlier insert had stored: the value
\* is not in the last slot.
DuplicateInsertNoOpWitness ==
    /\ command[1] = "insert"
    /\ SlabLen(slab) >= 3
    /\ slab[SlabLen(slab) - 1].value # command[2]
    /\ command[2] \in ValuesOf(slab)

\* C8: remove(v) of a value in the tree leaves exactly the other values
\* stored, and a search for v finds nothing.
RemoveDeletes ==
    [][\A v \in Values :
        (RemoveCmd(v) /\ v \in ValuesOf(slab)) =>
            /\ status' = "running"
            /\ ValuesOf(slab') = ValuesOf(slab) \ {v}
            /\ SlabLen(slab') = SlabLen(slab) - 1
            /\ LET found == choose_node(tree', root', v)
               IN  found.ok /\ found.val = Null]_vars

\* A remove has found its value and rebuilt the tree with four nodes left.
RemoveDeletesWitness ==
    /\ command[1] = "remove"
    /\ stdout = Prompt
    /\ SlabLen(slab) = MaxVal - 1
    /\ command[2] \notin ValuesOf(slab)

\* C9: remove(v) of a value not in the tree prints the notice and changes
\* neither the arena nor the root handle.
RemoveAbsentNoOp ==
    [][\A v \in Values :
        (RemoveCmd(v) /\ v \notin ValuesOf(slab)) =>
            /\ status' = "running"
            /\ stdout' = Prompt \o <<"no such node">>
            /\ slab' = slab
            /\ root' = root]_vars

\* A remove of an absent value has printed the notice, on a tree of three or
\* more nodes.
RemoveAbsentNoOpWitness ==
    /\ command[1] = "remove"
    /\ stdout = Prompt \o <<"no such node">>
    /\ SlabLen(slab) >= 3


----------------------------------------------------------------------------
\* Scenarios.

\* The values of the arena in slot order, which is the order of insertion.
SlotValues(sl) == [i \in 1 .. SlabLen(sl) |-> sl[i - 1].value]

\* The values 1, 2, 3, 4, 5, 6, 7 have just been inserted in this order.
AscendingSevenWitness ==
    /\ SlotValues(slab) = <<1, 2, 3, 4, 5, 6, 7>>
    /\ command = <<"insert", 7>>

\* C11 as stated: after inserting 1, 2, 3, 4, 5, 6, 7 in ascending order into
\* an empty tree, height() returns 3.
AscendingSevenHeightThree ==
    AscendingSevenWitness => height(tree) = [ok |-> TRUE, val |-> 3]

\* C11 amended: after inserting 1, 2, 3, 4, 5, 6, 7 in ascending order into
\* an empty tree, height() returns 4 (the path 2, 4, 6, 7 has four nodes).
AscendingSevenHeightFour ==
    AscendingSevenWitness => height(tree) = [ok |-> TRUE, val |-> 4]

StrictlyDescending(seq) == \A i \in 1 .. (Len(seq) - 1) : seq[i] > seq[i + 1]

\* The arena holds three values inserted in ascending or in descending order.
ThreeInOrder ==
    /\ SlabLen(slab) = 3
    /\ StrictlyAscending(SlotValues(slab)) \/ StrictlyDescending(SlotValues(slab))

\* The slot of the smallest (largest) of three values inserted in order.
ThreeLow == IF slab[0].value < slab[2].value THEN 0 ELSE 2

ThreeHigh == IF slab[0].value < slab[2].value THEN 2 ELSE 0

\* C12: three distinct values a < b < c inserted into an empty tree in
\* ascending or in descending order leave b as the Black root, a as its Red
\* left child, c as its Red right child, and height() = 2.
ThreeInOrderShape ==
    ThreeInOrder =>
        /\ root = 1
        /\ slab[1] = Node(slab[1].value, ThreeHigh, ThreeLow, Null, "Black")
        /\ slab[ThreeLow] = Node(slab[ThreeLow].value, Null, Null, 1, "Red")
        /\ slab[ThreeHigh] = Node(slab[ThreeHigh].value, Null, Null, 1, "Red")
        /\ slab[ThreeLow].value < slab[1].value
        /\ slab[1].value < slab[ThreeHigh].value
        /\ height(tree) = [ok |-> TRUE, val |-> 2]

\* The third of three descending inserts has just been made.
ThreeInOrderWitness ==
    /\ ThreeInOrder
    /\ StrictlyDescending(SlotValues(slab))
    /\ command = <<"insert", slab[2].value>>

\* The number of Red nodes of the arena.
RedNodes(sl) == Cardinality({i \in DOMAIN sl : sl[i].color = "Red"})

\* C13: on every reachable tree, the empty tree included, red_count()
\* returns the number of Red nodes of the whole tree, a non-negative integer
\* (the red command prints it and the loop goes on).
RedCountExact ==
    [][RedCmd =>
        /\ status' = "running"
        /\ RedNodes(slab) >= 0
        /\ red_count(tree) = [ok |-> TRUE, val |-> RedNodes(slab)]
        /\ stdout' = Prompt \o <<ToString(RedNodes(slab)) \o " red nodes">>]_vars

\* The tree obtained from t by calling insert on the values of seq in order.
RECURSIVE InsertAll(_, _)
InsertAll(t, seq) ==
    IF seq = <<>> THEN t ELSE InsertAll(insert(t, Head(seq)), Tail(seq))

\* The values of the arena other than val, in slot order.
Others(sl, val) == SelectSeq(SlotValues(sl), LAMBDA x : x # val)

\* C14: the tree after remove(v) (shape, values, colours) is the tree
\* obtained from an empty tree by calling insert, in arena slot order, on
\* every value of the old arena other than v.
RemoveIsRebuild ==
    [][\A v \in Values :
          RemoveCmd(v) =>
              /\ status' = "running"
              /\ Snap(tree') = Snap(InsertAll(new, Others(slab, v)))]_vars

\* A remove of a stored value has left a tree of at least three nodes whose
\* values are not in ascending slot order.
RemoveIsRebuildWitness ==
    /\ command[1] = "remove"
    /\ command[2] \notin ValuesOf(slab)
    /\ stdout = Prompt
    /\ SlabLen(slab) >= 3
    /\ ~StrictlyAscending(SlotValues(slab))

----------------------------------------------------------------------------
\* The calls made inside one insert.

Recursions(l) == SelectSeq(l, LAMBDA e : e.ev = "recurse")

Rotations(l) == SelectSeq(l, LAMBDA e : e.ev \in {"rotate_left", "rotate_right"})

\* The number of parent links between node and the root of the tree s.
RECURSIVE Depth(_, _)
Depth(s, node) ==
    IF s.slab[node].parent = Null THEN 0
    ELSE 1 + Depth(s, s.slab[node].parent)

\* The descent of insert_node ends at an equal value, changing nothing, or at
\* a null slot of a node of the tree, where the new Red leaf is hung.
DescentEnds(t, val) ==
    \E r \in {insert_node(t, val, t.root)} :
        /\ ~r.t.panic
        /\ IF val \in ValuesOf(t.slab)
           THEN r.node = Null /\ Snap(r.t) = Snap(t)
           ELSE /\ r.node = SlabLen(t.slab)
                /\ \E p \in DOMAIN t.slab :
                       /\ r.t.slab[r.node] = Node(val, Null, Null, p, "Red")
                       /\ Null \in {t.slab[p].left, t.slab[p].right}
                       /\ r.node \in {r.t.slab[p].left, r.t.slab[p].right}
                /\ Depth(Snap(r.t), r.node) <= SlabLen(t.slab)

\* Each recursion of the Red-uncle case continues two levels closer to the
\* root, and the next fixup entry is on the node it continued at.
FixupClimbs(l) ==
    \A i \in 1 .. Len(l) :
        l[i].ev = "recurse" =>
            /\ l[i].to \in DOMAIN l[i].before.slab
            /\ Depth(l[i].before, l[i].to) = Depth(l[i].before, l[i].node) - 2
            /\ i < Len(l) => l[i + 1].ev = "red_parent" /\ l[i + 1].node = l[i].to

\* The fixup machine stops in the root or Black-parent case (nothing follows
\* the last recursion, whose target has no parent or a Black one) or in the
\* Restructure case (the last call is a rotation).
FixupStops(l) ==
    \/ Len(l) = 0
    \/ /\ l[Len(l)].ev = "recurse"
       /\ \E s \in {l[Len(l)].after} : \E p \in {s.slab[l[Len(l)].to].parent} :
              p = Null \/ s.slab[p].color = "Black"
    \/ l[Len(l)].ev \in {"rotate_left", "rotate_right"}

\* C15: every operation terminates: on every reachable tree the height
\* recursion returns, the descent of an insert ends at a null slot or an
\* equal value, and the fixup machine, each time it recurses in the Red-uncle
\* case, continues two levels closer to the root and stops in the root,
\* Black-parent or Restructure case.
OperationsTerminate ==
    /\ height(tree).ok /\ height(tree).val <= SlabLen(slab)
    /\ \A val \in EdgeValues :
           root # Null =>
               /\ DescentEnds(tree, val)
               /\ \E r \in {insert(tree, val)} :
                      /\ ~r.panic
                      /\ FixupClimbs(r.log)
                      /\ FixupStops(r.log)
                      /\ 2 * Len(Recursions(r.log)) <= SlabLen(slab)

\* The calls made by the insert that stored the value of the last slot.
LastInsertLog ==
    insert([InsertAll(new, SubSeq(SlotValues(slab), 1, SlabLen(slab) - 1))
                EXCEPT !.log = <<>>],
           slab[SlabLen(slab) - 1].value).log

\* The last insert recursed twice in the Red-uncle case.
OperationsTerminateWitness ==
    /\ SlabLen(slab) >= 2
    /\ command = <<"insert", slab[SlabLen(slab) - 1].value>>
    /\ Len(Recursions(LastInsertLog)) >= 2

----------------------------------------------------------------------------
\* The command loop.

\* C16: the loop ends only when it reads an exit command (exit, break or
\* quit); every other line, an unrecognized command included, is handled
\* (an unrecognized one with the rejection message) and the loop goes on to
\* read the next line.
LoopEndsOnlyOnExit ==
    [][/\ status' # "running" => status' = "exited" /\ command'[1] \in ExitTokens
       /\ UnknownCmd => status' = "running" /\ stdout' = Prompt \o <<"what?">>]_vars

----------------------------------------------------------------------------
\* The frame of the rotations.

\* The call e left the in-order sequence of the whole tree, the set of slots
\* and the colour and value of every node as they were.
KeepsOrderAndNodes(e) ==
    /\ InOrder(e.after.slab, e.after.root) = InOrder(e.before.slab, e.before.root)
    /\ DOMAIN e.after.slab = DOMAIN e.before.slab
    /\ \A i \in DOMAIN e.before.slab :
           /\ e.after.slab[i].color = e.before.slab[i].color
           /\ e.after.slab[i].value = e.before.slab[i].value

\* C17: every rotate_left(x) or rotate_right(x) called during an insert leaves
\* the in-order sequence of the whole tree and the colour and value of every
\* node unchanged; when x lacks the required child (right for rotate_left,
\* left for rotate_right) the whole tree is unchanged.
RotationFrame ==
    /\ \A val \in Values :
           \E l \in {Rotations(insert(tree, val).log)} :
               \A i \in 1 .. Len(l) : KeepsOrderAndNodes(l[i])
    /\ \A x \in DOMAIN slab :
           /\ slab[x].right = Null => Snap(rotate_left(tree, x)) = Snap(tree)
           /\ slab[x].left = Null => Snap(rotate_right(tree, x)) = Snap(tree)

\* The last insert rotated twice (at the parent, then at the grandparent) and
\* both rotations changed the links of the tree.
RotationFrameWitness ==
    /\ SlabLen(slab) >= 3
    /\ command = <<"insert", slab[SlabLen(slab) - 1].value>>
    /\ \E l \in {Rotations(LastInsertLog)} :
           /\ Len(l) = 2
           /\ {l[1].ev, l[2].ev} = {"rotate_left", "rotate_right"}
           /\ \A i \in 1 .. 2 : l[i].after # l[i].before

----------------------------------------------------------------------------
\* The structure of the arena.

\* The slots met when following child links from node, parents first, for
\* at most fuel levels.
RECURSIVE Walk(_, _, _)
Walk(sl, node, fuel) ==
    IF node = Null \/ fuel = 0 THEN <<>>
    ELSE <<node>> \o Walk(sl, sl[node].left, fuel - 1)
                  \o Walk(sl, sl[node].right, fuel - 1)

NoRepeat(seq) == \A i, j \in 1 .. Len(seq) : i # j => seq[i] # seq[j]

\* C18: the links are mutually consistent: the root's parent is null, every
\* non-null child of a node has that node as its parent, every node other
\* than the root is the left or the right child of its parent and not both,
\* and following child links from the root visits no node twice.
LinksConsistent ==
    /\ root # Null => root \in DOMAIN slab /\ slab[root].parent = Null
    /\ \A i \in DOMAIN slab :
           /\ \A c \in Children(slab, i) : c \in DOMAIN slab /\ slab[c].parent = i
           /\ i # root =>
                  /\ slab[i].parent \in DOMAIN slab
                  /\ (slab[slab[i].parent].left = i) # (slab[slab[i].parent].right = i)
    /\ NoRepeat(Walk(slab, root, SlabLen(slab) + 1))

\* An insert has just rotated under a parent, in a tree of at least five
\* nodes with children on both sides of the root.
LinksConsistentWitness ==
    /\ SlabLen(slab) >= 5
    /\ command = <<"insert", slab[SlabLen(slab) - 1].value>>
    /\ slab[root].left # Null /\ slab[root].right # Null
    /\ \E l \in {Rotations(LastInsertLog)} :
           Len(l) >= 1 /\ l[1].before.slab[l[1].node].parent # Null

\* The set of the elements of a sequence.
Range(seq) == {seq[i] : i \in 1 .. Len(seq)}

\* C19: the arena holds exactly the nodes reachable from the root, one per
\* stored value, in the contiguous slots 0 .. n-1, so the rebuild loop of
\* remove, which reads the slots 0 .. n-1, visits every stored value exactly
\* once and never reads a vacant slot.
ArenaIsTree ==
    /\ status = "running"
    /\ DOMAIN slab = 0 .. (SlabLen(slab) - 1)
    /\ Range(Walk(slab, root, SlabLen(slab) + 1)) = DOMAIN slab
    /\ Len(Walk(slab, root, SlabLen(slab) + 1)) = SlabLen(slab)
    /\ NoRepeat(SlotValues(slab))
    /\ Range(SlotValues(slab)) = SubtreeValues(slab, root)
    /\ \A i \in 0 .. (SlabLen(slab) - 1) : Valid(tree, i)

\* A remove has just rebuilt a tree of at least four nodes.
ArenaIsTreeWitness ==
    /\ command[1] = "remove"
    /\ stdout = Prompt
    /\ SlabLen(slab) >= 4

----------------------------------------------------------------------------
\* The grandparent read by the Red-parent cases.

RedParentEntries(l) == SelectSeq(l, LAMBDA e : e.ev = "red_parent")

\* At the fixup entry e the parent of the node is Red, is not the root, and
\* has a parent in the arena.
HasGrandparent(e) ==
    \E s \in {e.before} : \E p \in {s.slab[e.node].parent} :
        /\ p \in DOMAIN s.slab
        /\ s.slab[p].color = "Red"
        /\ p # s.root
        /\ s.slab[p].parent \in DOMAIN s.slab

\* C20: in every insert, each time the fixup machine is entered on a node
\* whose parent is Red, also after it has recursed to a grandparent, that
\* parent is not the root, so the grandparent handle read by insert_case3 and
\* insert_case4 is non-null.
RedParentNotRoot ==
    \A val \in EdgeValues :
        \E r \in {insert(tree, val)} :
            /\ ~r.panic
            /\ \E l \in {RedParentEntries(r.log)} :
                   \A i \in 1 .. Len(l) : HasGrandparent(l[i])

\* The last insert recursed to the grandparent, found its parent Red too and
\* ended with a rotation.
RedParentNotRootWitness ==
    /\ SlabLen(slab) >= 2
    /\ command = <<"insert", slab[SlabLen(slab) - 1].value>>
    /\ \E l \in {LastInsertLog} :
           /\ Len(RedParentEntries(l)) >= 2
           /\ Len(Recursions(l)) >= 1
           /\ l[Len(l)].ev \in {"rotate_left", "rotate_right"}

============================================================================
